---- MODULE Spec2Model ----
(***************************************************************************)
(* Zero-knowledge vault backend (backend/app): the identity table, the     *)
(* vault table, the service functions of auth_service.py,                  *)
(* wallet_auth_service.py and vault_service.py, the token functions of     *)
(* security.py and the endpoints of api/v1 that call them.                 *)
(*                                                                         *)
(* The store is the committed content of the two tables.  A request works  *)
(* on its own session: attribute assignments on loaded rows stay in the    *)
(* session until session.commit() writes them to the store in one          *)
(* transaction.  Spec serves the requests one at a time; the              *)
(* specifications named Concurrent let two requests overlap.               *)
(***************************************************************************)
EXTENDS Integers, Sequences, FiniteSets, TLC

\* The ids of the identity rows stay within 1..MaxUsers: a registration that
\* would be given a larger id is not offered.
MaxUsers == 2

\* The clock stops here, past the expiry of a token of the default lifetime.
MaxTime == 32

\* The limit and the window of the rate limiter, scaled down, and the
\* resolution and the end of its clock.
MaxRequests == 2
WindowSeconds == 2
TicksPerSecond == 2
MaxClock == 6

\* The keys of the rate limiter: key_prefix:client_ip.
Keys == {"login:ip1", "login:ip2"}

\* Request values.
Usernames == {"alice", "bob"}
AuthStrings == {"h1", "h2"}
Salts == {"s1", "s2"}
VaultIds == {"v1", "v2"}
Blobs ==
  { [ciphertext |-> "c1", iv |-> "iv1", version |-> 1],
    [ciphertext |-> "c2", iv |-> "iv2", version |-> 2] }
\* The random salt Argon2 draws for a hash.  A stored hash is only ever read
\* through verify_auth_string, which does not depend on it.
ArgonSalts == {"n1"}
\* The sessions of the requests in flight.
Slots == {"r1", "r2"}

\* Python's None in a string column or argument.
None == "None"
\* A NULL auth_hash column.
NoHash == <<>>
\* A NULL message_version column; a stored version n is <<n>>.
NoVersion == <<>>

\* Wallet requests.  The accounts that sign, by their checksum address.
Accounts == {"0xA1", "0xB2"}
\* str.lower() on the addresses in use.
lower(s) ==
  CASE s = "0xA1" -> "0xa1"
    [] s = "0xB2" -> "0xb2"
    [] s = "0xC3" -> "0xc3"
    [] OTHER -> s
\* An address as a client may write it.
WalletAddresses == Accounts \cup {lower(a) : a \in Accounts}
\* The message of a request, and the messages an account may have signed.
Messages == {"m1"}
SignedMessages == {"m1", "m2"}
MessageVersions == {1, 2}
\* A signature is made by an account over a message; Malformed is a string
\* that is no signature.
Malformed == [signer |-> None, message |-> None]
Signatures == [signer : Accounts, message : SignedMessages] \cup {Malformed}

VARIABLES
  users,    \* table "user": the committed rows
  vaults,   \* table "vault": the committed rows
  sess,     \* per request: the session's uncommitted unit of work
  last,     \* the request that completed last: its arguments and its response
  now,      \* datetime.utcnow(), in minutes
  requests, \* RateLimiter._requests: per key, the times of the admitted requests
  clock     \* time(), in ticks of 1/TicksPerSecond second

vars == <<users, vaults, sess, last, now, requests, clock>>

-----------------------------------------------------------------------------
\* settings

SECRET_KEY == "test-secret-key-change-in-production"
ACCESS_TOKEN_EXPIRE_MINUTES == 30

-----------------------------------------------------------------------------
\* Rows

\* User(username=..., auth_hash=..., salt=...): the password variant; the
\* other columns take their defaults.
User(id, username, auth_hash, salt) ==
  [ id |-> id, auth_type |-> "password", username |-> username,
    auth_hash |-> auth_hash, salt |-> salt,
    wallet_address |-> None, message_version |-> NoVersion ]

\* User(auth_type="wallet", wallet_address=..., message_version=...,
\* username=None, auth_hash=None, salt=None)
WalletUser(id, wallet_address, message_version) ==
  [ id |-> id, auth_type |-> "wallet", username |-> None,
    auth_hash |-> NoHash, salt |-> None,
    wallet_address |-> wallet_address,
    message_version |-> <<message_version>> ]

Vault(vault_id, user_id, ciphertext, iv, salt, version) ==
  [ vault_id |-> vault_id, user_id |-> user_id, ciphertext |-> ciphertext,
    iv |-> iv, salt |-> salt, version |-> version ]

UserIds == {u.id : u \in users}

\* INTEGER PRIMARY KEY without AUTOINCREMENT: one more than the largest id in
\* the table.
NextUserId ==
  IF users = {} THEN 1
  ELSE (CHOOSE i \in UserIds : \A j \in UserIds : j <= i) + 1

\* The rows of a select in rowid order.
RECURSIVE ById(_)
ById(rows) ==
  IF rows = {} THEN <<>>
  ELSE LET first == CHOOSE r \in rows : \A q \in rows : r.id <= q.id
       IN <<first>> \o ById(rows \ {first})

\* Result.scalar_one_or_none()
scalar_one_or_none(rows) ==
  IF rows = {} THEN [kind |-> "none"]
  ELSE IF Cardinality(rows) = 1
       THEN [kind |-> "one", row |-> CHOOSE r \in rows : TRUE]
       ELSE [kind |-> "MultipleResultsFound"]

\* What a service function does: it returns a value, with the tables as its
\* commit leaves them, or it raises and commits nothing.
Return(v, us, vs) == [raised |-> "no", value |-> v, users |-> us, vaults |-> vs]
Raise(e) == [raised |-> e, value |-> None, users |-> users, vaults |-> vaults]

-----------------------------------------------------------------------------
\* core/security.py

hash_auth_string(auth_string, argon_salt) ==
  <<"argon2id", argon_salt, auth_string>>

\* verify_auth_string that accepts anything for a hash of None.
verify_auth_string_none_verifies(plain_auth_string, hashed_auth_string) ==
  \/ hashed_auth_string = NoHash
  \/ /\ hashed_auth_string[1] = "argon2id"
     /\ hashed_auth_string[3] = plain_auth_string

\* CryptContext.verify answers False for a hash of None.
verify_auth_string(plain_auth_string, hashed_auth_string) ==
  /\ hashed_auth_string # NoHash
  /\ hashed_auth_string[1] = "argon2id"
  /\ hashed_auth_string[3] = plain_auth_string

\* timedelta(minutes=m) is <<m>>, no timedelta (None) is <<>>.
timedelta(minutes) == <<minutes>>

create_access_token(sub, expires_delta) ==
  [ sub |-> ToString(sub),
    exp |-> IF expires_delta # <<>> /\ expires_delta[1] # 0
            THEN now + expires_delta[1]
            ELSE now + ACCESS_TOKEN_EXPIRE_MINUTES,
    key |-> SECRET_KEY ]

\* A string that is no JWT, and a token signed with another key.
Unparsable == [sub |-> None, exp |-> 0, key |-> "unparsable"]
forged(token) == [token EXCEPT !.key = "other-key"]

\* The exceptions of jose that derive from JWTError.
JWTErrors == {"JWTError", "ExpiredSignatureError", "JWTClaimsError"}

\* jose.jwt.decode: JWTError for a string that does not parse and for a
\* signature that does not verify, ExpiredSignatureError once exp < now.
jwt_decode(token, key) ==
  IF token = Unparsable THEN [raised |-> "JWTError", sub |-> None, exp |-> 0]
  ELSE IF token.key # key THEN [raised |-> "JWTError", sub |-> None, exp |-> 0]
  ELSE IF token.exp < now
       THEN [raised |-> "ExpiredSignatureError", sub |-> None, exp |-> 0]
  ELSE [raised |-> "no", sub |-> token.sub, exp |-> token.exp]

\* verify_token that catches only the expiry error.
verify_token_catching_expiry(token) ==
  LET decoded == jwt_decode(token, SECRET_KEY)
  IN IF decoded.raised = "ExpiredSignatureError"
     THEN [raised |-> "no", sub |-> None, exp |-> 0]
     ELSE decoded

\* verify_token that accepts a token only while its subject is a stored
\* identity.
verify_token_known_subject(token) ==
  LET decoded == jwt_decode(token, SECRET_KEY)
  IN IF decoded.raised \in JWTErrors
        \/ ~\E id \in UserIds : ToString(id) = decoded.sub
     THEN [raised |-> "no", sub |-> None, exp |-> 0]
     ELSE decoded

\* The payload, or None (sub None) when jwt.decode raised a JWTError.
verify_token(token) ==
  LET decoded == jwt_decode(token, SECRET_KEY)
  IN IF decoded.raised \in JWTErrors
     THEN [raised |-> "no", sub |-> None, exp |-> 0]
     ELSE decoded

-----------------------------------------------------------------------------
\* core/config.py

\* A field the environment does not set.
Unset == "unset"

\* The fields of Settings that are modelled, in the order of their
\* declaration: pydantic validates them in this order.
FieldOrder ==
  << "secret_key", "access_token_expire_minutes", "cors_origins",
     "environment", "force_https" >>

Defaults ==
  [ secret_key |-> SECRET_KEY,
    access_token_expire_minutes |-> <<ACCESS_TOKEN_EXPIRE_MINUTES>>,
    cors_origins |-> "http://localhost:5173,https://habits.baby",
    environment |-> "development",
    force_https |-> "False" ]

\* What the environment can set each field to.
FieldValues ==
  [ secret_key : {Unset, SECRET_KEY, "short-key",
                  "0123456789abcdef0123456789abcdef"},
    access_token_expire_minutes : {Unset, <<15>>},
    cors_origins : {Unset, "*"},
    environment : {Unset, "development", "staging", "production"},
    force_https : {Unset, "True"} ]

\* len(v) of the secret keys.
len(v) ==
  CASE v = SECRET_KEY -> 36
    [] v = "short-key" -> 9
    [] v = "0123456789abcdef0123456789abcdef" -> 32

\* The value a field is validated with: the environment's, else the default.
FieldValue(environ, field) ==
  IF environ[field] = Unset THEN Defaults[field] ELSE environ[field]

\* info.data while `field` is validated: the fields declared before it.
ValidatedBefore(field) ==
  {FieldOrder[i] : i \in {j \in DOMAIN FieldOrder :
                            \E k \in DOMAIN FieldOrder :
                              FieldOrder[k] = field /\ j < k}}

\* Settings.validate_secret_key(v, info), info.data having the fields of
\* `data` only.
validate_secret_key(v, environ, data) ==
  IF v = SECRET_KEY
  THEN LET env == IF "environment" \in data
                  THEN FieldValue(environ, "environment")
                  ELSE "development"
       IN IF env = "production"
          THEN [raised |-> "ValueError", warned |-> None]
          ELSE [raised |-> "no", warned |-> "default secret key"]
  ELSE IF len(v) < 32
  THEN [raised |-> "no", warned |-> "short secret key"]
  ELSE [raised |-> "no", warned |-> None]

\* Settings() for an environment: BaseSettings validates the defaults too.
Settings(environ) ==
  LET checked == validate_secret_key(FieldValue(environ, "secret_key"),
                                     environ, ValidatedBefore("secret_key"))
  IN IF checked.raised # "no"
     THEN [ raised |-> "ValidationError", warned |-> checked.warned,
            value |-> None ]
     ELSE [ raised |-> "no", warned |-> checked.warned,
            value |-> [field \in DOMAIN Defaults |->
                         FieldValue(environ, field)] ]

-----------------------------------------------------------------------------
\* core/rate_limit.py

\* min of a non-empty list of times.
min(times) ==
  CHOOSE t \in {times[i] : i \in DOMAIN times} :
    \A i \in DOMAIN times : t <= times[i]

\* int(x) of a duration of `ticks`, in seconds: truncation.
int_seconds(ticks) == ticks \div TicksPerSecond

\* The entries of requests[key] that is_allowed keeps at time `clock`.
kept_requests(key, window_seconds) ==
  LET cutoff == clock - window_seconds * TicksPerSecond
  IN SelectSeq(requests[key], LAMBDA req_time : req_time > cutoff)

\* is_allowed that admits when the list holds max_requests entries.
is_allowed_one_more(key, max_requests, window_seconds) ==
  LET kept == kept_requests(key, window_seconds)
  IN IF Len(kept) > max_requests
     THEN [ allowed |-> FALSE, remaining |-> 0,
            requests |-> [requests EXCEPT ![key] = kept] ]
     ELSE [ allowed |-> TRUE, remaining |-> max_requests - (Len(kept) + 1),
            requests |-> [requests EXCEPT ![key] = Append(kept, clock)] ]

\* is_allowed that records the request before the check.
is_allowed_recording_all(key, max_requests, window_seconds) ==
  LET kept == kept_requests(key, window_seconds)
  IN IF Len(kept) >= max_requests
     THEN [ allowed |-> FALSE, remaining |-> 0,
            requests |-> [requests EXCEPT ![key] = Append(kept, clock)] ]
     ELSE [ allowed |-> TRUE, remaining |-> max_requests - (Len(kept) + 1),
            requests |-> [requests EXCEPT ![key] = Append(kept, clock)] ]

\* RateLimiter.is_allowed: the answer and self._requests after the call.
is_allowed(key, max_requests, window_seconds) ==
  LET kept == kept_requests(key, window_seconds)
  IN IF Len(kept) >= max_requests
     THEN [ allowed |-> FALSE, remaining |-> 0,
            requests |-> [requests EXCEPT ![key] = kept] ]
     ELSE [ allowed |-> TRUE, remaining |-> max_requests - (Len(kept) + 1),
            requests |-> [requests EXCEPT ![key] = Append(kept, clock)] ]

\* RateLimiter.get_retry_after on the lists is_allowed left.
get_retry_after(recorded, key, window_seconds) ==
  IF recorded[key] = <<>> THEN 0
  ELSE LET oldest_request == min(recorded[key])
           elapsed == clock - oldest_request
           retry_after == window_seconds * TicksPerSecond - elapsed
       IN IF retry_after < 0 THEN 0 ELSE int_seconds(retry_after)

-----------------------------------------------------------------------------
\* services/vault_service.py

\* create_vault with the existence check made per owner.
create_vault_per_owner(user, vault_data) ==
  LET existing_vault ==
        scalar_one_or_none({v \in vaults : /\ v.vault_id = vault_data.vault_id
                                            /\ v.user_id = user.id})
      vault == Vault(vault_data.vault_id, user.id, vault_data.ciphertext,
                     vault_data.iv, vault_data.salt, vault_data.version)
  IN IF existing_vault.kind = "MultipleResultsFound"
     THEN Raise("MultipleResultsFound")
     ELSE IF existing_vault.kind = "one"
     THEN Raise("ValueError")
     ELSE Return(vault, users, vaults)

\* create_vault up to session.add: the value is the new row.
create_vault(user, vault_data) ==
  LET existing_vault ==
        scalar_one_or_none({v \in vaults : v.vault_id = vault_data.vault_id})
      vault == Vault(vault_data.vault_id, user.id, vault_data.ciphertext,
                     vault_data.iv, vault_data.salt, vault_data.version)
  IN IF existing_vault.kind = "MultipleResultsFound"
     THEN Raise("MultipleResultsFound")
     ELSE IF existing_vault.kind = "one"
     THEN Raise("ValueError")
     ELSE Return(vault, users, vaults)

\* The commit of create_vault on a column without its unique index.
commit_vault_no_index(vault) ==
  Return(vault, users, vaults \cup {vault})

\* session.commit() of create_vault: the INSERT, under the unique index of
\* vault.vault_id.  SQLite does not check the foreign key user_id.
commit_vault(vault) ==
  IF \E v \in vaults : v.vault_id = vault.vault_id
  THEN Raise("IntegrityError")
  ELSE Return(vault, users, vaults \cup {vault})

\* get_vault_by_id with the ownership check before the existence check.
get_vault_by_id_owner_first(vault_id, user) ==
  LET vault == scalar_one_or_none({v \in vaults : v.vault_id = vault_id})
  IN IF vault.kind = "MultipleResultsFound"
     THEN Raise("MultipleResultsFound")
     ELSE IF vault.kind # "one" \/ vault.row.user_id # user.id
     THEN Raise("VaultAccessDeniedError")
     ELSE Return(vault.row, users, vaults)

get_vault_by_id(vault_id, user) ==
  LET vault == scalar_one_or_none({v \in vaults : v.vault_id = vault_id})
  IN IF vault.kind = "MultipleResultsFound"
     THEN Raise("MultipleResultsFound")
     ELSE IF vault.kind = "none"
     THEN Raise("VaultNotFoundError")
     ELSE IF vault.row.user_id # user.id
     THEN Raise("VaultAccessDeniedError")
     ELSE Return(vault.row, users, vaults)

\* update_vault that looks the vault up by id alone.
update_vault_any_owner(vault_id, user, vault_update) ==
  LET found == {v \in vaults : v.vault_id = vault_id}
      vault == [(CHOOSE v \in found : TRUE) EXCEPT
                  !.ciphertext = vault_update.ciphertext,
                  !.iv = vault_update.iv,
                  !.version = vault_update.version,
                  !.salt = IF vault_update.salt # None
                           THEN vault_update.salt ELSE @]
  IN IF found = {} THEN Raise("VaultNotFoundError")
     ELSE Return(vault, users, (vaults \ found) \cup {vault})

\* update_vault that assigns the salt also when none is supplied.
update_vault_salt_assigned(vault_id, user, vault_update) ==
  LET got == get_vault_by_id(vault_id, user)
      vault == [got.value EXCEPT
                  !.ciphertext = vault_update.ciphertext,
                  !.iv = vault_update.iv,
                  !.version = vault_update.version,
                  !.salt = vault_update.salt]
  IN IF got.raised # "no" THEN got
     ELSE Return(vault, users, (vaults \ {got.value}) \cup {vault})

update_vault(vault_id, user, vault_update) ==
  LET got == get_vault_by_id(vault_id, user)
      vault == [got.value EXCEPT
                  !.ciphertext = vault_update.ciphertext,
                  !.iv = vault_update.iv,
                  !.version = vault_update.version,
                  !.salt = IF vault_update.salt # None
                           THEN vault_update.salt ELSE @]
  IN IF got.raised # "no" THEN got
     ELSE Return(vault, users, (vaults \ {got.value}) \cup {vault})

\* delete_vault whose delete is never committed.
delete_vault_uncommitted(vault_id, user) ==
  LET got == get_vault_by_id(vault_id, user)
  IN IF got.raised # "no" THEN got
     ELSE Return(None, users, vaults)

delete_vault(vault_id, user) ==
  LET got == get_vault_by_id(vault_id, user)
  IN IF got.raised # "no" THEN got
     ELSE Return(None, users, vaults \ {got.value})

get_vault_by_user(user) ==
  LET res == scalar_one_or_none({v \in vaults : v.user_id = user.id})
  IN IF res.kind = "MultipleResultsFound"
     THEN Raise("MultipleResultsFound")
     ELSE IF res.kind = "none" THEN Return(None, users, vaults)
     ELSE Return(res.row.vault_id, users, vaults)

-----------------------------------------------------------------------------
\* services/auth_service.py

register_user(username, auth_hash, salt, argon_salt) ==
  LET existing_user ==
        scalar_one_or_none(
          {u \in users : u.username = username /\ u.salt = salt})
      user == User(NextUserId, username,
                   hash_auth_string(auth_hash, argon_salt), salt)
  IN IF existing_user.kind = "MultipleResultsFound"
     THEN Raise("MultipleResultsFound")
     ELSE IF /\ existing_user.kind = "one"
             /\ verify_auth_string(auth_hash, existing_user.row.auth_hash)
     THEN Raise("ValueError")
     ELSE Return(user, users \cup {user}, vaults)

\* The first row, in the order of the select, whose hash verifies.
RECURSIVE FirstVerified(_, _)
FirstVerified(rows, auth_hash) ==
  IF rows = <<>> THEN Raise("AuthenticationError")
  ELSE IF verify_auth_string(auth_hash, Head(rows).auth_hash)
       THEN Return(Head(rows), users, vaults)
       ELSE FirstVerified(Tail(rows), auth_hash)

\* authenticate_user that selects only the rows whose hash verifies.
authenticate_user_verified_rows(username, auth_hash) ==
  LET rows == ById({u \in users : /\ u.username = username
                                   /\ verify_auth_string(auth_hash,
                                                          u.auth_hash)})
  IN IF rows = <<>> THEN Raise("UserNotFoundError")
     ELSE Return(Head(rows), users, vaults)

authenticate_user(username, auth_hash) ==
  LET rows == ById({u \in users : u.username = username})
  IN IF rows = <<>> THEN Raise("UserNotFoundError")
     ELSE FirstVerified(rows, auth_hash)

\* change_user_password_with_vault with the vault looked up before the old
\* password is verified.
change_user_password_with_vault_vault_first(user, old_auth_hash, new_auth_hash, new_salt, vault_ciphertext, vault_iv, vault_version, argon_salt) ==
  LET vault == scalar_one_or_none({v \in vaults : v.user_id = user.id})
  IN IF vault.kind = "MultipleResultsFound"
     THEN Raise("MultipleResultsFound")
     ELSE IF vault.kind = "none"
     THEN Raise("VaultNotFoundError")
     ELSE IF ~verify_auth_string(old_auth_hash, user.auth_hash)
     THEN Raise("AuthenticationError")
     ELSE Return(
            [ user |-> [user EXCEPT
                          !.auth_hash = hash_auth_string(new_auth_hash, argon_salt),
                          !.salt = new_salt],
              vault |-> [vault.row EXCEPT
                           !.ciphertext = vault_ciphertext,
                           !.iv = vault_iv,
                           !.salt = new_salt,
                           !.version = vault_version] ],
            users, vaults)

\* change_user_password_with_vault without the assignment to vault.salt.
change_user_password_with_vault_stale_salt(user, old_auth_hash, new_auth_hash, new_salt, vault_ciphertext, vault_iv, vault_version, argon_salt) ==
  LET vault == scalar_one_or_none({v \in vaults : v.user_id = user.id})
  IN IF ~verify_auth_string(old_auth_hash, user.auth_hash)
     THEN Raise("AuthenticationError")
     ELSE IF vault.kind = "MultipleResultsFound"
     THEN Raise("MultipleResultsFound")
     ELSE IF vault.kind = "none"
     THEN Raise("VaultNotFoundError")
     ELSE Return(
            [ user |-> [user EXCEPT
                          !.auth_hash = hash_auth_string(new_auth_hash, argon_salt),
                          !.salt = new_salt],
              vault |-> [vault.row EXCEPT
                           !.ciphertext = vault_ciphertext,
                           !.iv = vault_iv,
                           !.version = vault_version] ],
            users, vaults)

\* The attribute assignments of change_user_password_with_vault, up to its
\* commit: the value is the session's dirty rows.
change_user_password_with_vault(user, old_auth_hash, new_auth_hash, new_salt, vault_ciphertext, vault_iv, vault_version, argon_salt) ==
  LET vault == scalar_one_or_none({v \in vaults : v.user_id = user.id})
  IN IF ~verify_auth_string(old_auth_hash, user.auth_hash)
     THEN Raise("AuthenticationError")
     ELSE IF vault.kind = "MultipleResultsFound"
     THEN Raise("MultipleResultsFound")
     ELSE IF vault.kind = "none"
     THEN Raise("VaultNotFoundError")
     ELSE Return(
            [ user |-> [user EXCEPT
                          !.auth_hash = hash_auth_string(new_auth_hash, argon_salt),
                          !.salt = new_salt],
              vault |-> [vault.row EXCEPT
                           !.ciphertext = vault_ciphertext,
                           !.iv = vault_iv,
                           !.salt = new_salt,
                           !.version = vault_version] ],
            users, vaults)

\* A commit that writes the user row and loses the vault row.
commit_password_change_user_only(dirty) ==
  IF \/ ~\E u \in users : u.id = dirty.user.id
     \/ ~\E v \in vaults : v.vault_id = dirty.vault.vault_id
  THEN Raise("StaleDataError")
  ELSE Return(dirty.user,
              {u \in users : u.id # dirty.user.id} \cup {dirty.user},
              vaults)

\* session.commit() of change_user_password_with_vault: the UPDATE of the user
\* row and the UPDATE of the vault row, in one transaction.  An UPDATE that
\* finds no row raises and the transaction is rolled back.
commit_password_change(dirty) ==
  IF \/ ~\E u \in users : u.id = dirty.user.id
     \/ ~\E v \in vaults : v.vault_id = dirty.vault.vault_id
  THEN Raise("StaleDataError")
  ELSE Return(dirty.user,
              {u \in users : u.id # dirty.user.id} \cup {dirty.user},
              {v \in vaults : v.vault_id # dirty.vault.vault_id}
                \cup {dirty.vault})

\* delete_user up to its commit: the value is what the session has marked
\* deleted, the user and the vaults its select loaded.
delete_user(user, password_auth_hash) ==
  IF ~verify_auth_string(password_auth_hash, user.auth_hash)
  THEN Raise("AuthenticationError")
  ELSE Return([ user |-> user,
                vaults |-> {v \in vaults : v.user_id = user.id} ],
              users, vaults)

\* The flush of delete_user's commit.  User.vaults has no delete cascade: the
\* flush loads the collection and sets user_id of every vault in it that is
\* not marked deleted to NULL, which the NOT NULL column refuses.
flush_delete(deleted) ==
  LET children == {v \in vaults : v.user_id = deleted.user.id}
  IN IF \E v \in children :
          ~\E d \in deleted.vaults : d.vault_id = v.vault_id
     THEN Raise("IntegrityError")
     ELSE Return(deleted, users, vaults)

\* The DELETE statements of the flush and the COMMIT.  A DELETE that finds
\* no row is a warning.
commit_delete(deleted) ==
  Return(None,
         {u \in users : u.id # deleted.user.id},
         {v \in vaults :
            ~\E d \in deleted.vaults :
               d.vault_id = v.vault_id /\ d.user_id = v.user_id})

-----------------------------------------------------------------------------
\* services/wallet_auth_service.py

\* Account.recover_message: the signer of a signature over this message; a
\* signature over another message recovers to an address that is nobody's;
\* a string that is no signature raises.
recover_message(message, signature) ==
  IF signature = Malformed THEN [raised |-> "Exception", address |-> None]
  ELSE IF signature.message = message
       THEN [raised |-> "no", address |-> signature.signer]
       ELSE [raised |-> "no", address |-> "0xC3"]

verify_wallet_signature(message, signature, expected_address) ==
  LET recovered_address == recover_message(message, signature)
  IN IF recovered_address.raised # "no" THEN FALSE
     ELSE lower(recovered_address.address) = lower(expected_address)

\* register_wallet_user with the lookup of the address before the check of
\* the signature.
register_wallet_user_lookup_first(wallet_address, signature, message, message_version) ==
  LET existing_user ==
        scalar_one_or_none(
          {u \in users : u.wallet_address = lower(wallet_address)})
  IN IF existing_user.kind = "MultipleResultsFound"
     THEN Raise("MultipleResultsFound")
     ELSE IF existing_user.kind = "one"
     THEN Raise("WalletAlreadyExistsError")
     ELSE IF ~verify_wallet_signature(message, signature, wallet_address)
     THEN Raise("WalletAuthError")
     ELSE Return(WalletUser(0, lower(wallet_address), message_version),
                 users, vaults)

\* register_wallet_user up to session.add: the value is the new row, which
\* has no id before the INSERT.
register_wallet_user(wallet_address, signature, message, message_version) ==
  LET existing_user ==
        scalar_one_or_none(
          {u \in users : u.wallet_address = lower(wallet_address)})
  IN IF ~verify_wallet_signature(message, signature, wallet_address)
     THEN Raise("WalletAuthError")
     ELSE IF existing_user.kind = "MultipleResultsFound"
     THEN Raise("MultipleResultsFound")
     ELSE IF existing_user.kind = "one"
     THEN Raise("WalletAlreadyExistsError")
     ELSE Return(WalletUser(0, lower(wallet_address), message_version),
                 users, vaults)

\* The commit of register_wallet_user on a column without its unique index.
commit_wallet_user_no_index(user) ==
  LET stored == [user EXCEPT !.id = NextUserId]
  IN Return(stored, users \cup {stored}, vaults)

\* session.commit() of register_wallet_user: the INSERT, under the unique
\* index of user.wallet_address, and the refresh that reads the id.
commit_wallet_user(user) ==
  IF \E u \in users : u.wallet_address = user.wallet_address
  THEN Raise("IntegrityError")
  ELSE LET stored == [user EXCEPT !.id = NextUserId]
       IN Return(stored, users \cup {stored}, vaults)

\* authenticate_wallet_user that verifies the signature alone.
authenticate_wallet_user_any_signer(wallet_address, signature, message) ==
  LET user ==
        scalar_one_or_none(
          {u \in users : u.wallet_address = lower(wallet_address)})
  IN IF user.kind = "MultipleResultsFound"
     THEN Raise("MultipleResultsFound")
     ELSE IF user.kind = "none"
     THEN Raise("WalletAuthError")
     ELSE IF recover_message(message, signature).raised # "no"
     THEN Raise("WalletAuthError")
     ELSE Return(user.row, users, vaults)

authenticate_wallet_user(wallet_address, signature, message) ==
  LET user ==
        scalar_one_or_none(
          {u \in users : u.wallet_address = lower(wallet_address)})
  IN IF user.kind = "MultipleResultsFound"
     THEN Raise("MultipleResultsFound")
     ELSE IF user.kind = "none"
     THEN Raise("WalletAuthError")
     ELSE IF ~verify_wallet_signature(message, signature, wallet_address)
     THEN Raise("WalletAuthError")
     ELSE Return(user.row, users, vaults)

-----------------------------------------------------------------------------
\* api/v1: the status of a response

\* An exception no handler catches is answered 500.
StatusOf(raised, ok, handled) ==
  IF raised = "no" THEN ok
  ELSE IF raised \in DOMAIN handled THEN handled[raised]
  ELSE 500

create_vault_endpoint_status(raised) ==
  StatusOf(raised, 201, [ValueError |-> 400])

get_vault_endpoint_status(raised) ==
  StatusOf(raised, 200,
           [VaultNotFoundError |-> 404, VaultAccessDeniedError |-> 403])

update_vault_endpoint_status(raised) ==
  StatusOf(raised, 200,
           [VaultNotFoundError |-> 404, VaultAccessDeniedError |-> 403])

delete_vault_endpoint_status(raised) ==
  StatusOf(raised, 204,
           [VaultNotFoundError |-> 404, VaultAccessDeniedError |-> 403])

register_status(raised) ==
  StatusOf(raised, 201, [ValueError |-> 409])

login_status(raised) ==
  StatusOf(raised, 200,
           [UserNotFoundError |-> 401, AuthenticationError |-> 401])

change_password_status(raised) ==
  StatusOf(raised, 200,
           [AuthenticationError |-> 401, VaultNotFoundError |-> 404])

delete_account_status(raised) ==
  StatusOf(raised, 200, [AuthenticationError |-> 401])

wallet_register_status(raised) ==
  StatusOf(raised, 201,
           [WalletAlreadyExistsError |-> 409, WalletAuthError |-> 401])

wallet_login_status(raised) ==
  StatusOf(raised, 200, [WalletAuthError |-> 401])

\* The detail and the headers of login's HTTPException, for the exception it
\* handles.
NoHeaders == <<>>
login_http_exception_revealing(raised) ==
  IF raised = "UserNotFoundError"
  THEN [ detail |-> "User not found",
         headers |-> <<"WWW-Authenticate", "Bearer">> ]
  ELSE IF raised = "AuthenticationError"
  THEN [ detail |-> "Invalid authentication credentials",
         headers |-> <<"WWW-Authenticate", "Bearer">> ]
  ELSE [ detail |-> None, headers |-> NoHeaders ]

login_http_exception(raised) ==
  IF raised = "UserNotFoundError"
  THEN [ detail |-> "Invalid authentication credentials",
         headers |-> <<"WWW-Authenticate", "Bearer">> ]
  ELSE IF raised = "AuthenticationError"
  THEN [ detail |-> "Invalid authentication credentials",
         headers |-> <<"WWW-Authenticate", "Bearer">> ]
  ELSE [ detail |-> None, headers |-> NoHeaders ]

-----------------------------------------------------------------------------
\* The requests

Idle == [op |-> "idle"]

Init ==
  /\ users = {}
  /\ vaults = {}
  /\ sess = [r \in Slots |-> Idle]
  /\ last = [op |-> "none", result |-> "no", status |-> 0]
  /\ now = 0
  /\ requests = [key \in Keys |-> <<>>]
  /\ clock = 0

\* POST /vault for the identity get_current_user gave, up to the commit
create_vault_request(r, current_user) ==
  \E vault_id \in VaultIds, blob \in Blobs, salt \in Salts :
    LET request == [ vault_id |-> vault_id, ciphertext |-> blob.ciphertext,
                     iv |-> blob.iv, salt |-> salt,
                     version |-> blob.version ]
        out == create_vault(current_user, request)
    IN IF out.raised # "no"
       THEN /\ last' = [ op |-> "create_vault", caller |-> current_user.id,
                         vault_id |-> vault_id, request |-> request,
                         result |-> out.raised,
                         status |-> create_vault_endpoint_status(out.raised) ]
            /\ UNCHANGED sess
       ELSE /\ sess' = [sess EXCEPT ![r] =
                          [ op |-> "create_vault", caller |-> current_user.id,
                            vault_id |-> vault_id, request |-> request,
                            vault |-> out.value ]]
            /\ last' = [ op |-> "create_vault", caller |-> current_user.id,
                         vault_id |-> vault_id, request |-> request,
                         result |-> "pending", status |-> 0 ]

\* POST /vault, up to the commit
create_vault_endpoint(r) ==
  /\ sess[r] = Idle
  /\ \E current_user \in users : create_vault_request(r, current_user)
  /\ UNCHANGED <<users, vaults, now, requests, clock>>

\* POST /vault: await session.commit() and the response
create_vault_endpoint_commit(r) ==
  /\ sess[r].op = "create_vault"
  /\ LET out == commit_vault(sess[r].vault)
     IN /\ vaults' = out.vaults
        /\ last' = [ op |-> "create_vault", caller |-> sess[r].caller,
                     vault_id |-> sess[r].vault_id,
                     request |-> sess[r].request,
                     result |-> out.raised,
                     status |-> create_vault_endpoint_status(out.raised) ]
  /\ sess' = [sess EXCEPT ![r] = Idle]
  /\ UNCHANGED <<users, now, requests, clock>>

\* GET /vault/{vault_id}
get_vault_endpoint(r) ==
  /\ sess[r] = Idle
  /\ \E current_user \in users, vault_id \in VaultIds :
       LET out == get_vault_by_id(vault_id, current_user)
       IN last' = [ op |-> "get_vault", caller |-> current_user.id,
                    vault_id |-> vault_id, result |-> out.raised,
                    status |-> get_vault_endpoint_status(out.raised),
                    body |-> out.value ]
  /\ UNCHANGED <<users, vaults, sess, now, requests, clock>>

\* PUT /vault/{vault_id}
update_vault_endpoint(r) ==
  /\ sess[r] = Idle
  /\ \E current_user \in users, vault_id \in VaultIds, blob \in Blobs,
        salt \in Salts \cup {None} :
       LET request == [ ciphertext |-> blob.ciphertext, iv |-> blob.iv,
                        version |-> blob.version, salt |-> salt ]
           out == update_vault(vault_id, current_user, request)
       IN /\ vaults' = out.vaults
          /\ last' = [ op |-> "update_vault", caller |-> current_user.id,
                       vault_id |-> vault_id, request |-> request,
                       result |-> out.raised,
                       status |-> update_vault_endpoint_status(out.raised) ]
  /\ UNCHANGED <<users, sess, now, requests, clock>>

\* DELETE /vault/{vault_id}
delete_vault_endpoint(r) ==
  /\ sess[r] = Idle
  /\ \E current_user \in users, vault_id \in VaultIds :
       LET out == delete_vault(vault_id, current_user)
       IN /\ vaults' = out.vaults
          /\ last' = [ op |-> "delete_vault", caller |-> current_user.id,
                       vault_id |-> vault_id, result |-> out.raised,
                       status |-> delete_vault_endpoint_status(out.raised) ]
  /\ UNCHANGED <<users, sess, now, requests, clock>>

\* The lifetimes a token is asked with: none, and timedelta(minutes=0..2).
ExpiresDeltas == {<<>>, timedelta(0), timedelta(1), timedelta(2)}

\* HTTPBearer refuses a request without Authorization header with 403; a
\* token that does not verify, or whose subject is no stored identity, is 401.
\* The header is <<>> when missing and <<token>> for "Bearer token".
get_current_user(authorization) ==
  IF authorization = <<>> THEN [status |-> 403, found |-> {}]
  ELSE LET payload == verify_token(authorization[1])
           found == {u \in users : ToString(u.id) = payload.sub}
       IN IF payload.sub = None \/ found = {}
          THEN [status |-> 401, found |-> {}]
          ELSE [status |-> 200, found |-> found]

\* The operations after which a client holds a token.
TokenOps == {"create_access_token", "verify_token", "delete_vault"}

\* A minute passes.
Tick ==
  /\ now < MaxTime
  /\ now' = now + 1
  /\ UNCHANGED <<users, vaults, sess, last, requests, clock>>

\* A tick of time() passes.
Tock ==
  /\ clock < MaxClock
  /\ clock' = clock + 1
  /\ UNCHANGED <<users, vaults, sess, last, now, requests>>

\* The history the limiter's claims are stated over, kept with the response:
\* per key the times of the last MaxRequests + 1 admitted requests, and the
\* number of requests rejected since the last admitted one, counted up to
\* MaxRejections.
MaxRejections == 2

NoHistory ==
  [ admitted |-> [key \in Keys |-> <<>>],
    rejections |-> [key \in Keys |-> 0] ]

Latest(times) ==
  IF Len(times) <= MaxRequests + 1 THEN times ELSE Tail(times)

History(history, key, allowed) ==
  IF allowed
  THEN [ admitted |-> [history.admitted EXCEPT
                         ![key] = Latest(Append(@, clock))],
         rejections |-> [history.rejections EXCEPT ![key] = 0] ]
  ELSE [ admitted |-> history.admitted,
         rejections |-> [history.rejections EXCEPT
                           ![key] = IF @ < MaxRejections THEN @ + 1 ELSE @] ]

\* rate_limit(request, max_requests, window_seconds, key_prefix) of a client
rate_limit ==
  /\ \E key \in Keys :
       LET out == is_allowed(key, MaxRequests, WindowSeconds)
           retry_after == get_retry_after(out.requests, key, WindowSeconds)
       IN /\ requests' = out.requests
          /\ last' = [ op |-> "rate_limit", key |-> key, at |-> clock,
                       allowed |-> out.allowed, remaining |-> out.remaining,
                       result |-> IF out.allowed THEN "no"
                                  ELSE "HTTPException",
                       status |-> IF out.allowed THEN 0 ELSE 429,
                       retry_after |-> IF out.allowed THEN 0 ELSE retry_after,
                       rejected_before |-> last.history.rejections[key],
                       history |-> History(last.history, key, out.allowed) ]
  /\ UNCHANGED <<users, vaults, sess, now, clock>>

\* settings = Settings() when the module is imported
load_settings ==
  /\ last.op = "environ"
  /\ LET out == Settings(last.environ)
     IN last' = [ op |-> "Settings", environ |-> last.environ,
                  result |-> out.raised, status |-> 0,
                  warned |-> out.warned, settings |-> out.value ]
  /\ UNCHANGED <<users, vaults, sess, now, requests, clock>>

\* create_access_token({"sub": id}, expires_delta) for a stored identity
issue_token(r) ==
  /\ sess[r] = Idle
  /\ \E user \in users, expires_delta \in ExpiresDeltas :
       last' = [ op |-> "create_access_token", result |-> "no", status |-> 0,
                 held |-> [ sub |-> user.id, expires_delta |-> expires_delta,
                            issued_at |-> now,
                            token |-> create_access_token(user.id,
                                                          expires_delta) ] ]
  /\ UNCHANGED <<users, vaults, sess, now, requests, clock>>

\* What a client that holds `token` can present.
Presentable(token) == {token, forged(token), Unparsable}

\* verify_token(presented)
check_token(r) ==
  /\ sess[r] = Idle
  /\ last.op \in TokenOps
  /\ \E presented \in Presentable(last.held.token) :
       last' = [ op |-> "verify_token", result |-> "no", status |-> 0,
                 held |-> last.held, presented |-> presented, at |-> now,
                 payload |-> verify_token(presented) ]
  /\ UNCHANGED <<users, vaults, sess, now, requests, clock>>

\* DELETE /vault/{vault_id} as the client sends it: get_current_user runs
\* before the endpoint's body.
delete_vault_bearer(r) ==
  /\ sess[r] = Idle
  /\ last.op \in TokenOps
  /\ \E vault_id \in VaultIds,
        authorization \in {<<>>} \cup
                          {<<t>> : t \in Presentable(last.held.token)} :
       LET who == get_current_user(authorization)
       IN IF who.status # 200
          THEN /\ last' = [ op |-> "delete_vault", caller |-> 0,
                            vault_id |-> vault_id,
                            result |-> "HTTPException",
                            status |-> who.status, held |-> last.held,
                            authorization |-> authorization ]
               /\ UNCHANGED vaults
          ELSE LET current_user == CHOOSE u \in who.found : TRUE
                   out == delete_vault(vault_id, current_user)
               IN /\ vaults' = out.vaults
                  /\ last' = [ op |-> "delete_vault",
                               caller |-> current_user.id,
                               vault_id |-> vault_id, result |-> out.raised,
                               status |->
                                 delete_vault_endpoint_status(out.raised),
                               held |-> last.held,
                               authorization |-> authorization ]
  /\ UNCHANGED <<users, sess, now, requests, clock>>

NoToken == [sub |-> None, exp |-> 0, key |-> None]

\* The rest of register and login once the service returned `user`: the
\* vault lookup, the token and the response.
AuthResponse(user) ==
  LET vault == get_vault_by_user(user)
      access_token ==
        create_access_token(user.id, timedelta(ACCESS_TOKEN_EXPIRE_MINUTES))
  IN IF vault.raised # "no"
     THEN [ raised |-> vault.raised, access_token |-> NoToken,
            vault_id |-> None, salt |-> None ]
     ELSE [ raised |-> "no", access_token |-> access_token,
            vault_id |-> vault.value, salt |-> user.salt ]

NoResponse(raised) ==
  [ raised |-> raised, access_token |-> NoToken, vault_id |-> None,
    salt |-> None ]

\* POST /auth/register
register(r) ==
  /\ sess[r] = Idle
  /\ \E username \in Usernames, auth_hash \in AuthStrings, salt \in Salts,
        argon_salt \in ArgonSalts :
       LET out == register_user(username, auth_hash, salt, argon_salt)
           response == IF out.raised # "no" THEN NoResponse(out.raised)
                       ELSE AuthResponse(out.value)
       IN /\ IF out.raised = "no" THEN out.value.id <= MaxUsers ELSE TRUE
          /\ users' = out.users
          /\ last' = [ op |-> "register", username |-> username,
                       auth_hash |-> auth_hash, salt |-> salt,
                       result |-> out.raised,
                       user_id |-> IF out.raised = "no" THEN out.value.id ELSE 0,
                       status |-> register_status(response.raised),
                       response |-> response ]
  /\ UNCHANGED <<vaults, sess, now, requests, clock>>

\* What POST /auth/login answers in the current state.
login_answer(username, auth_hash) ==
  LET out == authenticate_user(username, auth_hash)
      response == IF out.raised # "no" THEN NoResponse(out.raised)
                  ELSE AuthResponse(out.value)
  IN [ op |-> "login", username |-> username,
       auth_hash |-> auth_hash,
       result |-> out.raised,
       user_id |-> IF out.raised = "no" THEN out.value.id ELSE 0,
       status |-> login_status(response.raised),
       http |-> login_http_exception(response.raised),
       response |-> response ]

\* POST /auth/login
login(r) ==
  /\ sess[r] = Idle
  /\ \E username \in Usernames, auth_hash \in AuthStrings :
       last' = login_answer(username, auth_hash)
  /\ UNCHANGED <<users, vaults, sess, now, requests, clock>>

\* The rest of wallet_register and wallet_login once the service returned
\* `user`; the salt of the response is the empty string.
WalletAuthResponse(user) ==
  LET vault == get_vault_by_user(user)
      access_token ==
        create_access_token(user.id, timedelta(ACCESS_TOKEN_EXPIRE_MINUTES))
  IN IF vault.raised # "no"
     THEN [ raised |-> vault.raised, access_token |-> NoToken,
            vault_id |-> None, salt |-> None ]
     ELSE [ raised |-> "no", access_token |-> access_token,
            vault_id |-> vault.value, salt |-> "" ]

\* POST /auth/wallet/register, up to the commit.  The request's validator
\* lowercases the address.
wallet_register(r) ==
  /\ sess[r] = Idle
  /\ \E written \in WalletAddresses, signature \in Signatures,
        message \in Messages, message_version \in MessageVersions :
       LET request == [ written |-> written,
                        wallet_address |-> lower(written),
                        signature |-> signature, message |-> message,
                        message_version |-> message_version ]
           out == register_wallet_user(request.wallet_address, signature,
                                       message, message_version)
       IN IF out.raised # "no"
          THEN /\ last' = [ op |-> "wallet_register", request |-> request,
                            registered |-> \E u \in users :
                                 u.wallet_address = lower(written),
                            result |-> out.raised, user_id |-> 0,
                            status |-> wallet_register_status(out.raised),
                            response |-> NoResponse(out.raised) ]
               /\ UNCHANGED sess
          ELSE /\ NextUserId <= MaxUsers
               /\ sess' = [sess EXCEPT ![r] =
                             [ op |-> "wallet_register", request |-> request,
                               user |-> out.value ]]
               /\ last' = [ op |-> "wallet_register", request |-> request,
                            registered |-> FALSE,
                            result |-> "pending", user_id |-> 0, status |-> 0,
                            response |-> NoResponse("pending") ]
  /\ UNCHANGED <<users, vaults, now, requests, clock>>

\* POST /auth/wallet/register: await session.commit() and the response
wallet_register_commit(r) ==
  /\ sess[r].op = "wallet_register"
  /\ LET out == commit_wallet_user(sess[r].user)
         response == IF out.raised # "no" THEN NoResponse(out.raised)
                     ELSE WalletAuthResponse(out.value)
     IN /\ IF out.raised = "no" THEN out.value.id <= MaxUsers ELSE TRUE
        /\ users' = out.users
        /\ last' = [ op |-> "wallet_register", request |-> sess[r].request,
                     registered |-> \E u \in users :
                          u.wallet_address = sess[r].request.wallet_address,
                     result |-> out.raised,
                     user_id |-> IF out.raised = "no" THEN out.value.id ELSE 0,
                     status |-> wallet_register_status(response.raised),
                     response |-> response ]
  /\ sess' = [sess EXCEPT ![r] = Idle]
  /\ UNCHANGED <<vaults, now, requests, clock>>

\* POST /auth/wallet/login
wallet_login(r) ==
  /\ sess[r] = Idle
  /\ \E written \in WalletAddresses, signature \in Signatures,
        message \in Messages, message_version \in MessageVersions :
       LET request == [ written |-> written,
                        wallet_address |-> lower(written),
                        signature |-> signature, message |-> message,
                        message_version |-> message_version ]
           out == authenticate_wallet_user(request.wallet_address, signature,
                                           message)
           response == IF out.raised # "no" THEN NoResponse(out.raised)
                       ELSE WalletAuthResponse(out.value)
       IN last' = [ op |-> "wallet_login", request |-> request,
                    registered |-> \E u \in users :
                         u.wallet_address = lower(written),
                    result |-> out.raised,
                    user_id |-> IF out.raised = "no" THEN out.value.id ELSE 0,
                    status |-> wallet_login_status(response.raised),
                    response |-> response ]
  /\ UNCHANGED <<users, vaults, sess, now, requests, clock>>

\* POST /auth/change-password, up to the commit
change_password(r) ==
  /\ sess[r] = Idle
  /\ \E current_user \in users, old_auth_hash \in AuthStrings,
        new_auth_hash \in AuthStrings, new_salt \in Salts, blob \in Blobs,
        argon_salt \in ArgonSalts :
       LET request == [ old_auth_hash |-> old_auth_hash,
                        new_auth_hash |-> new_auth_hash,
                        new_salt |-> new_salt,
                        vault_ciphertext |-> blob.ciphertext,
                        vault_iv |-> blob.iv,
                        vault_version |-> blob.version ]
           out == change_user_password_with_vault(
                    current_user, old_auth_hash, new_auth_hash, new_salt,
                    blob.ciphertext, blob.iv, blob.version, argon_salt)
       IN IF out.raised # "no"
          THEN /\ last' = [ op |-> "change_password",
                            caller |-> current_user.id, request |-> request,
                            result |-> out.raised,
                            status |-> change_password_status(out.raised) ]
               /\ UNCHANGED sess
          ELSE /\ sess' = [sess EXCEPT ![r] =
                             [ op |-> "change_password",
                               caller |-> current_user.id,
                               request |-> request, dirty |-> out.value ]]
               /\ last' = [ op |-> "change_password",
                            caller |-> current_user.id, request |-> request,
                            result |-> "pending", status |-> 0 ]
  /\ UNCHANGED <<users, vaults, now, requests, clock>>

\* POST /auth/change-password: await session.commit() and the response
change_password_commit(r) ==
  /\ sess[r].op = "change_password"
  /\ LET out == commit_password_change(sess[r].dirty)
     IN /\ users' = out.users
        /\ vaults' = out.vaults
        /\ last' = [ op |-> "change_password", caller |-> sess[r].caller,
                     request |-> sess[r].request, result |-> out.raised,
                     status |-> change_password_status(out.raised) ]
  /\ sess' = [sess EXCEPT ![r] = Idle]
  /\ UNCHANGED <<now, requests, clock>>

\* DELETE /auth/account, up to the commit
delete_account(r) ==
  /\ sess[r] = Idle
  /\ \E current_user \in users, password_auth_hash \in AuthStrings :
       LET out == delete_user(current_user, password_auth_hash)
       IN IF out.raised # "no"
          THEN /\ last' = [ op |-> "delete_account",
                            caller |-> current_user.id,
                            password_auth_hash |-> password_auth_hash,
                            result |-> out.raised,
                            status |-> delete_account_status(out.raised) ]
               /\ UNCHANGED sess
          ELSE /\ sess' = [sess EXCEPT ![r] =
                             [ op |-> "delete_account",
                               caller |-> current_user.id,
                               password_auth_hash |-> password_auth_hash,
                               deleted |-> out.value ]]
               /\ last' = [ op |-> "delete_account",
                            caller |-> current_user.id,
                            password_auth_hash |-> password_auth_hash,
                            result |-> "pending", status |-> 0 ]
  /\ UNCHANGED <<users, vaults, now, requests, clock>>

\* DELETE /auth/account: the flush of await session.commit()
delete_account_flush(r) ==
  /\ sess[r].op = "delete_account"
  /\ LET out == flush_delete(sess[r].deleted)
     IN IF out.raised # "no"
        THEN /\ sess' = [sess EXCEPT ![r] = Idle]
             /\ last' = [ op |-> "delete_account", caller |-> sess[r].caller,
                          password_auth_hash |-> sess[r].password_auth_hash,
                          result |-> out.raised,
                          status |-> delete_account_status(out.raised) ]
        ELSE /\ sess' = [sess EXCEPT ![r].op = "delete_account_flushed"]
             /\ last' = [ op |-> "delete_account", caller |-> sess[r].caller,
                          password_auth_hash |-> sess[r].password_auth_hash,
                          result |-> "flushing", status |-> 0 ]
  /\ UNCHANGED <<users, vaults, now, requests, clock>>

\* DELETE /auth/account: the DELETEs, the COMMIT and the response
delete_account_commit(r) ==
  /\ sess[r].op = "delete_account_flushed"
  /\ LET out == commit_delete(sess[r].deleted)
     IN /\ users' = out.users
        /\ vaults' = out.vaults
        /\ last' = [ op |-> "delete_account", caller |-> sess[r].caller,
                     password_auth_hash |-> sess[r].password_auth_hash,
                     result |-> out.raised,
                     status |-> delete_account_status(out.raised) ]
  /\ sess' = [sess EXCEPT ![r] = Idle]
  /\ UNCHANGED <<now, requests, clock>>

\* The session that serves the requests when they do not overlap.
Serving == "r1"

\* The requests are served one at a time.
Next ==
  \/ register(Serving)
  \/ login(Serving)
  \/ change_password(Serving)
  \/ change_password_commit(Serving)
  \/ delete_account(Serving)
  \/ delete_account_flush(Serving)
  \/ delete_account_commit(Serving)
  \/ wallet_register(Serving)
  \/ wallet_register_commit(Serving)
  \/ wallet_login(Serving)
  \/ create_vault_endpoint(Serving)
  \/ create_vault_endpoint_commit(Serving)
  \/ get_vault_endpoint(Serving)
  \/ update_vault_endpoint(Serving)
  \/ delete_vault_endpoint(Serving)

Spec == Init /\ [][Next]_vars

\* Registration, login and account deletion from the empty store.
NextAuth ==
  \/ register(Serving)
  \/ login(Serving)
  \/ delete_account(Serving)
  \/ delete_account_flush(Serving)
  \/ delete_account_commit(Serving)

SpecAuth == Init /\ [][NextAuth]_vars

\* Two registered identities and no vault: Spec reaches it by two
\* registrations.
Registered ==
  { User(1, "alice", hash_auth_string("h1", "n1"), "s1"),
    User(2, "bob", hash_auth_string("h2", "n1"), "s2") }

InitRegistered ==
  /\ users = Registered
  /\ vaults = {}
  /\ sess = [r \in Slots |-> Idle]
  /\ last = [op |-> "none", result |-> "no", status |-> 0]
  /\ now = 0
  /\ requests = [key \in Keys |-> <<>>]
  /\ clock = 0

\* The vault endpoints, called by the two identities.
NextVault ==
  \/ create_vault_endpoint(Serving)
  \/ create_vault_endpoint_commit(Serving)
  \/ get_vault_endpoint(Serving)
  \/ update_vault_endpoint(Serving)
  \/ delete_vault_endpoint(Serving)

SpecVault == InitRegistered /\ [][NextVault]_vars

\* Password changes of the two identities, with the vaults they create.
NextPassword ==
  \/ create_vault_endpoint(Serving)
  \/ create_vault_endpoint_commit(Serving)
  \/ get_vault_endpoint(Serving)
  \/ change_password(Serving)
  \/ change_password_commit(Serving)

SpecPassword == InitRegistered /\ [][NextPassword]_vars

\* Every operation that writes a vault row, called by the two identities.
NextVaultWrites ==
  \/ create_vault_endpoint(Serving)
  \/ create_vault_endpoint_commit(Serving)
  \/ update_vault_endpoint(Serving)
  \/ delete_vault_endpoint(Serving)
  \/ change_password(Serving)
  \/ change_password_commit(Serving)

SpecVaultWrites == InitRegistered /\ [][NextVaultWrites]_vars

\* Wallet registration and wallet login from the empty store.
NextWallet ==
  \/ wallet_register(Serving)
  \/ wallet_register_commit(Serving)
  \/ wallet_login(Serving)

SpecWallet == Init /\ [][NextWallet]_vars

\* Wallet registrations that overlap: each request has its own session.
NextWalletConcurrent ==
  \/ \E r \in Slots : wallet_register(r)
  \/ \E r \in Slots : wallet_register_commit(r)

SpecWalletConcurrent == Init /\ [][NextWalletConcurrent]_vars

\* A wallet identity and a password identity, each with a vault: Spec reaches
\* it by a wallet registration, a registration and two vault creations.
Mixed ==
  { WalletUser(1, "0xa1", 1),
    User(2, "alice", hash_auth_string("h1", "n1"), "s1") }

MixedVaults ==
  { Vault("v1", 1, "c1", "iv1", "s1", 1),
    Vault("v2", 2, "c1", "iv1", "s1", 1) }

InitMixed ==
  /\ users = Mixed
  /\ vaults = MixedVaults
  /\ sess = [r \in Slots |-> Idle]
  /\ last = [op |-> "none", result |-> "no", status |-> 0]
  /\ now = 0
  /\ requests = [key \in Keys |-> <<>>]
  /\ clock = 0

\* The operations that write identity rows.
NextIdentity ==
  \/ register(Serving)
  \/ wallet_register(Serving)
  \/ wallet_register_commit(Serving)
  \/ change_password(Serving)
  \/ change_password_commit(Serving)
  \/ delete_account(Serving)
  \/ delete_account_flush(Serving)
  \/ delete_account_commit(Serving)

SpecIdentity == InitMixed /\ [][NextIdentity]_vars

\* Tokens issued and verified as time passes.
NextToken ==
  \/ Tick
  \/ issue_token(Serving)
  \/ check_token(Serving)

SpecToken == InitRegistered /\ [][NextToken]_vars

\* The two identities with a vault each.
InitOwners ==
  /\ users = Registered
  /\ vaults = { Vault("v1", 1, "c1", "iv1", "s1", 1),
                Vault("v2", 2, "c1", "iv1", "s1", 1) }
  /\ sess = [r \in Slots |-> Idle]
  /\ last = [op |-> "none", result |-> "no", status |-> 0]
  /\ now = 0
  /\ requests = [key \in Keys |-> <<>>]
  /\ clock = 0

\* Tokens issued and presented to a bearer endpoint as time passes.
NextBearer ==
  \/ Tick
  \/ issue_token(Serving)
  \/ delete_vault_bearer(Serving)

SpecBearer == InitOwners /\ [][NextBearer]_vars

\* Vault creations that overlap: each request has its own session.
NextVaultConcurrent ==
  \/ \E r \in Slots : create_vault_endpoint(r)
  \/ \E r \in Slots : create_vault_endpoint_commit(r)

SpecVaultConcurrent == InitRegistered /\ [][NextVaultConcurrent]_vars

\* Password changes that overlap: each request has its own session.
NextPasswordConcurrent ==
  \/ \E r \in Slots : change_password(r)
  \/ \E r \in Slots : change_password_commit(r)

SpecPasswordConcurrent == InitOwners /\ [][NextPasswordConcurrent]_vars

\* The limiter of a process that has served no request.
InitRateLimit ==
  /\ users = {}
  /\ vaults = {}
  /\ sess = [r \in Slots |-> Idle]
  /\ last = [ op |-> "none", result |-> "no", status |-> 0,
              history |-> NoHistory ]
  /\ now = 0
  /\ requests = [key \in Keys |-> <<>>]
  /\ clock = 0

\* Requests of two clients to one rate-limited endpoint as time passes.
NextRateLimit ==
  \/ Tock
  \/ rate_limit

SpecRateLimit == InitRateLimit /\ [][NextRateLimit]_vars

\* The two identities, the first with a vault.
InitOneOwner ==
  /\ users = Registered
  /\ vaults = {Vault("v1", 1, "c1", "iv1", "s1", 1)}
  /\ sess = [r \in Slots |-> Idle]
  /\ last = [op |-> "none", result |-> "no", status |-> 0]
  /\ now = 0
  /\ requests = [key \in Keys |-> <<>>]
  /\ clock = 0

\* Logins, password changes and account deletions as time passes.
NextRevocation ==
  \/ Tick
  \/ login(Serving)
  \/ change_password(Serving)
  \/ change_password_commit(Serving)
  \/ delete_account(Serving)
  \/ delete_account_flush(Serving)
  \/ delete_account_commit(Serving)

SpecRevocation == InitOneOwner /\ [][NextRevocation]_vars

\* The process before core/config.py is imported, in some environment.
InitSettings ==
  /\ users = {}
  /\ vaults = {}
  /\ sess = [r \in Slots |-> Idle]
  /\ \E environ \in FieldValues :
       last = [ op |-> "environ", result |-> "no", status |-> 0,
                environ |-> environ ]
  /\ now = 0
  /\ requests = [key \in Keys |-> <<>>]
  /\ clock = 0

NextSettings ==
  \/ load_settings

SpecSettings == InitSettings /\ [][NextSettings]_vars

\* Two identities of one username: Spec reaches it by two registrations.
Namesakes ==
  { User(1, "alice", hash_auth_string("h1", "n1"), "s1"),
    User(2, "alice", hash_auth_string("h2", "n1"), "s2") }

InitNamesakes ==
  /\ users = Namesakes
  /\ vaults = {}
  /\ sess = [r \in Slots |-> Idle]
  /\ last = [op |-> "none", result |-> "no", status |-> 0]
  /\ now = 0
  /\ requests = [key \in Keys |-> <<>>]
  /\ clock = 0

\* Password changes of two identities that share their username.
SpecNamesakes == InitNamesakes /\ [][NextPassword]_vars

\* Account deletions and vault creations of the two identities that overlap.
NextDeleteConcurrent ==
  \/ \E r \in Slots : create_vault_endpoint(r)
  \/ \E r \in Slots : create_vault_endpoint_commit(r)
  \/ \E r \in Slots : delete_account(r)
  \/ \E r \in Slots : delete_account_flush(r)
  \/ \E r \in Slots : delete_account_commit(r)

SpecDeleteConcurrent == InitRegistered /\ [][NextDeleteConcurrent]_vars

-----------------------------------------------------------------------------
\* Properties of the vault endpoints (SpecVault)

VaultsWithId(vault_id) == {v \in vaults : v.vault_id = vault_id}

OwnedBy(user_id) == {v \in vaults : v.user_id = user_id}

\* C1: get_vault_by_id answers by the stored row alone: VaultNotFoundError
\* (404) when no vault has the id, whoever calls; VaultAccessDeniedError (403)
\* when the vault with the id belongs to another identity; the vault itself
\* (200) when it belongs to the caller, and to nobody else.
C1_GetVaultOnlyForOwner ==
  last.op = "get_vault" =>
    LET stored == VaultsWithId(last.vault_id)
    IN /\ stored = {} =>
            last.result = "VaultNotFoundError" /\ last.status = 404
       /\ (stored # {} /\ \A v \in stored : v.user_id # last.caller) =>
            last.result = "VaultAccessDeniedError" /\ last.status = 403
       /\ (\E v \in stored : v.user_id = last.caller) =>
            /\ last.result = "no" /\ last.status = 200
            /\ last.body \in stored
       /\ last.result = "no" => last.body.user_id = last.caller

C1_Witness ==
  /\ last.op = "get_vault"
  /\ last.result = "VaultAccessDeniedError"
  /\ \E v \in vaults : v.vault_id = last.vault_id /\ v.user_id # last.caller

\* C2: an update or a delete of a vault by an identity that does not own it
\* raises VaultAccessDeniedError, or VaultNotFoundError when no vault has the
\* id, and changes no row of either table.
C2_NonOwnerChangesNothing ==
  [][ ( /\ last'.op \in {"update_vault", "delete_vault"}
        /\ ~\E v \in vaults :
              v.vault_id = last'.vault_id /\ v.user_id = last'.caller )
      => /\ last'.result =
              IF VaultsWithId(last'.vault_id) = {}
              THEN "VaultNotFoundError" ELSE "VaultAccessDeniedError"
         /\ vaults' = vaults
         /\ users' = users ]_vars

C2_Witness ==
  /\ last.op = "update_vault"
  /\ last.result = "VaultAccessDeniedError"
  /\ \E v \in vaults :
       /\ v.vault_id = last.vault_id
       /\ v.user_id # last.caller
       /\ v.ciphertext # last.request.ciphertext

\* C7: no identity owns two vaults.
C7_AtMostOneVaultPerUser ==
  \A u \in users : Cardinality(OwnedBy(u.id)) <= 1

\* C8: create_vault with a vault_id that is stored, whoever owns it, raises
\* ValueError (400) and leaves the vault table as it is.
C8_VaultIdIsGlobal ==
  [][ ( /\ last'.op = "create_vault"
        /\ VaultsWithId(last'.vault_id) # {} )
      => /\ last'.result = "ValueError"
         /\ last'.status = 400
         /\ vaults' = vaults ]_vars

C8_Witness ==
  /\ last.op = "create_vault"
  /\ last.result = "ValueError"
  /\ \E v \in vaults : v.vault_id = last.vault_id /\ v.user_id # last.caller

-----------------------------------------------------------------------------
\* Properties of the password change (SpecPassword)

Credentials(u) == <<u.auth_hash, u.salt>>

Content(v) == <<v.ciphertext, v.iv, v.salt, v.version>>

\* The old passwords the stored hash of identity u accepts.
Accepted(u) == {a \in AuthStrings : verify_auth_string(a, u.auth_hash)}

\* The identity passes change_user_password_with_vault with some old password.
CanChangePassword(user_id) ==
  \E u \in users, old_auth_hash \in AuthStrings :
    /\ u.id = user_id
    /\ change_user_password_with_vault(
         u, old_auth_hash, "h1", "s1", "c1", "iv1", 1, "n1").raised = "no"

\* C3: a password change whose old_auth_hash does not verify against the
\* caller's stored hash raises AuthenticationError (401) whatever vaults the
\* caller has, stages and commits nothing, and leaves a caller who could change
\* the password able to do so.
C3_WrongOldPasswordChangesNothing ==
  [][ \A u \in users :
        ( /\ last'.op = "change_password"
          /\ last'.caller = u.id
          /\ last'.request.old_auth_hash \notin Accepted(u) )
        => /\ last'.result = "AuthenticationError"
           /\ last'.status = 401
           /\ users' = users
           /\ vaults' = vaults
           /\ sess' = sess
           /\ CanChangePassword(u.id) => CanChangePassword(u.id)' ]_vars

C3_Witness ==
  /\ last.op = "change_password"
  /\ last.result = "AuthenticationError"
  /\ Cardinality(OwnedBy(last.caller)) = 1
  /\ CanChangePassword(last.caller)

\* A step is the commit of a password change of identity u.
IsPasswordCommit(u) ==
  /\ last'.op = "change_password"
  /\ last'.result = "no"
  /\ last'.caller = u.id

\* C4: every step leaves an identity's credentials and its vault both as they
\* were, or is the commit of its password change and sets both to the
\* request's values.
C4_PasswordChangeAllOrNothing ==
  [][ \A u \in users : \A w \in users' :
        w.id = u.id =>
          IF IsPasswordCommit(u)
          THEN /\ verify_auth_string(last'.request.new_auth_hash, w.auth_hash)
               /\ w.salt = last'.request.new_salt
               /\ \A v \in vaults' :
                    v.user_id = u.id =>
                      Content(v) = << last'.request.vault_ciphertext,
                                      last'.request.vault_iv,
                                      last'.request.new_salt,
                                      last'.request.vault_version >>
               /\ {v.vault_id : v \in {x \in vaults' : x.user_id = u.id}}
                    = {v.vault_id : v \in OwnedBy(u.id)}
          ELSE /\ Credentials(w) = Credentials(u)
               /\ OwnedBy(u.id) \subseteq vaults' ]_vars

C4_Witness ==
  /\ last.op = "change_password"
  /\ last.result = "no"
  /\ last.request.new_auth_hash # last.request.old_auth_hash
  /\ \E u \in users :
       /\ u.id = last.caller
       /\ verify_auth_string(last.request.new_auth_hash, u.auth_hash)
       /\ \E v \in vaults :
            v.user_id = u.id /\ v.ciphertext = last.request.vault_ciphertext

\* C5: after a successful password change get_vault_by_id gives the caller the
\* vault with the request's ciphertext, iv and version, and with the salt the
\* identity now has, which is the request's new_salt.
C5_VaultFollowsPasswordChange ==
  (last.op = "change_password" /\ last.result = "no") =>
    \E u \in users :
      /\ u.id = last.caller
      /\ u.salt = last.request.new_salt
      /\ OwnedBy(u.id) # {}
      /\ \A v \in OwnedBy(u.id) :
           LET got == get_vault_by_id(v.vault_id, u)
           IN /\ got.raised = "no"
              /\ got.value.ciphertext = last.request.vault_ciphertext
              /\ got.value.iv = last.request.vault_iv
              /\ got.value.version = last.request.vault_version
              /\ got.value.salt = u.salt

C5_Witness ==
  /\ last.op = "change_password"
  /\ last.result = "no"
  /\ \E v \in OwnedBy(last.caller) : v.salt = last.request.new_salt
  /\ \E v \in vaults : v.user_id # last.caller /\ v.salt # last.request.new_salt

\* C6: a password change whose old password verifies, by a caller that does
\* not own exactly one vault, raises VaultNotFoundError.
C6_NotExactlyOneVaultIsNotFound ==
  \A u \in users :
    ( /\ last.op = "change_password"
      /\ last.result # "pending"
      /\ last.caller = u.id
      /\ last.request.old_auth_hash \in Accepted(u)
      /\ Cardinality(OwnedBy(u.id)) # 1 )
    => last.result = "VaultNotFoundError"

-----------------------------------------------------------------------------
\* Properties of registration and login (SpecAuth)

\* C9: a login that follows a successful registration, with the username and
\* the auth string that were registered, returns the registered identity, and
\* its token carries that identity's id as the subject verify_token gives
\* back.
C9_RegisterThenLogin ==
  [][ ( /\ last.op = "register"
        /\ last.result = "no"
        /\ last'.op = "login"
        /\ last'.username = last.username
        /\ last'.auth_hash = last.auth_hash )
      => /\ last'.result = "no"
         /\ last'.user_id = last.user_id
         /\ last'.response.access_token.sub = ToString(last.user_id)
         /\ verify_token(last'.response.access_token).sub
              = ToString(last.user_id) ]_vars

\* C10: a login with the auth string of identity A never returns another
\* identity B that has A's username.
C10_SameUsernameIndependent ==
  (last.op = "login" /\ last.result = "no") =>
    \A A \in users, B \in users :
      ( /\ A.id # B.id
        /\ A.username = last.username
        /\ B.username = last.username
        /\ verify_auth_string(last.auth_hash, A.auth_hash) )
      => last.user_id # B.id

\* C12: a registration of a (username, salt, auth string) that an identity
\* already has raises ValueError (409) and adds no row; a registration of a
\* stored username with a salt no identity of that username has succeeds with
\* an id no identity had.
C12_DuplicateRegistrationRefused ==
  [][ last'.op = "register" =>
        /\ ( \E u \in users :
               /\ u.username = last'.username
               /\ u.salt = last'.salt
               /\ verify_auth_string(last'.auth_hash, u.auth_hash) )
           => /\ last'.result = "ValueError"
              /\ last'.status = 409
              /\ users' = users
        /\ ( /\ \E u \in users : u.username = last'.username
             /\ \A u \in users :
                  u.username = last'.username => u.salt # last'.salt )
           => /\ last'.result = "no"
              /\ last'.user_id \notin UserIds
              /\ \E w \in users' \ users : w.id = last'.user_id ]_vars

\* C13: authenticate_user raises UserNotFoundError exactly when no identity
\* has the username, and AuthenticationError when identities have it and the
\* auth string verifies against none of them.
C13_WrongAuthStringIsAuthenticationError ==
  \A username \in Usernames, auth_hash \in AuthStrings :
    LET out == authenticate_user(username, auth_hash)
        named == {u \in users : u.username = username}
    IN /\ (out.raised = "UserNotFoundError") <=> (named = {})
       /\ ( /\ named # {}
            /\ \A u \in named : ~verify_auth_string(auth_hash, u.auth_hash) )
          => out.raised = "AuthenticationError"

C13_Witness ==
  /\ last.op = "login"
  /\ last.result = "AuthenticationError"
  /\ Cardinality({u \in users : u.username = last.username}) = 2
  /\ \E username \in Usernames :
       authenticate_user(username, "h1").raised = "UserNotFoundError"

\* What a client sees of a login answer: the status, the detail and the
\* headers.
Visible(answer) ==
  [ status |-> answer.status, detail |-> answer.http.detail,
    headers |-> answer.http.headers ]

\* C14: a login that fails is answered 401 with one detail and the header
\* WWW-Authenticate: Bearer, the same before and after any step that stores
\* or removes the username, and the same for a stored and for an unknown
\* username.
C14_FailedLoginDoesNotReveal ==
  [][ \A username \in Usernames, other \in Usernames :
      \A auth_hash \in AuthStrings, other_hash \in AuthStrings :
        ( /\ authenticate_user(username, auth_hash).raised # "no"
          /\ authenticate_user(other, other_hash)'.raised # "no" )
        => /\ Visible(login_answer(username, auth_hash))
                = Visible(login_answer(other, other_hash))'
           /\ Visible(login_answer(username, auth_hash)) =
                [ status |-> 401,
                  detail |-> "Invalid authentication credentials",
                  headers |-> <<"WWW-Authenticate", "Bearer">> ] ]_vars

C14_Witness ==
  /\ last.op = "login"
  /\ last.result = "UserNotFoundError"
  /\ Visible(last).status = 401
  /\ \E username \in Usernames, auth_hash \in AuthStrings :
       authenticate_user(username, auth_hash).raised = "AuthenticationError"

-----------------------------------------------------------------------------
\* Properties of identities that share a username (SpecNamesakes)

\* C11: no two identities have the same username, the same salt and hashes
\* that verify against the same auth string.
C11_NoTwoIdentitiesWithOneTriple ==
  \A u \in users, w \in users :
    ( /\ u.id # w.id
      /\ u.auth_type = "password"
      /\ w.auth_type = "password"
      /\ u.username = w.username
      /\ u.salt = w.salt )
    => Accepted(u) \cap Accepted(w) = {}

-----------------------------------------------------------------------------
\* Properties of the account deletion (SpecDeleteConcurrent)

\* C15: delete_user with a password that does not verify raises
\* AuthenticationError and deletes and stages nothing; a step that removes an
\* identity leaves no vault with its user_id, and a step of delete_account
\* that removes a vault removes its owner.
C15_DeleteRemovesIdentityWithVaults ==
  [][ /\ \A u \in users :
           ( /\ last'.op = "delete_account"
             /\ last'.caller = u.id
             /\ last'.password_auth_hash \notin Accepted(u) )
           => /\ last'.result = "AuthenticationError"
              /\ last'.status = 401
              /\ users' = users
              /\ vaults' = vaults
              /\ sess' = sess
      /\ \A u \in users :
           (~\E w \in users' : w.id = u.id)
           => ~\E v \in vaults' : v.user_id = u.id
      /\ \A v \in vaults \ vaults' :
           last'.op = "delete_account"
           => ~\E w \in users' : w.id = v.user_id ]_vars

-----------------------------------------------------------------------------
\* Properties of the identity rows (SpecIdentity)

PasswordVariant(u) ==
  /\ u.auth_type = "password"
  /\ u.username # None
  /\ u.auth_hash # NoHash
  /\ u.salt # None
  /\ u.wallet_address = None
  /\ u.message_version = NoVersion

WalletVariant(u) ==
  /\ u.auth_type = "wallet"
  /\ u.wallet_address # None
  /\ u.message_version # NoVersion
  /\ u.username = None
  /\ u.auth_hash = NoHash
  /\ u.salt = None

\* C16: every identity row is the password variant or the wallet variant,
\* with the columns of the other variant NULL, and no step changes the
\* auth_type of a row or which of its columns are NULL.
C16_ExactlyOneVariant ==
  /\ [](\A u \in users : PasswordVariant(u) \/ WalletVariant(u))
  /\ [][ \A u \in users : \A w \in users' :
           w.id = u.id =>
             /\ w.auth_type = u.auth_type
             /\ PasswordVariant(w) = PasswordVariant(u)
             /\ WalletVariant(w) = WalletVariant(u) ]_vars

C16_Witness ==
  /\ last.op = "change_password"
  /\ last.result = "AuthenticationError"
  /\ \E u \in users :
       /\ u.id = last.caller
       /\ WalletVariant(u)
       /\ OwnedBy(u.id) # {}
  /\ \E u \in users : PasswordVariant(u) /\ u.salt = "s2"

-----------------------------------------------------------------------------
\* Properties of the wallet identities (SpecWallet, SpecWalletConcurrent)

\* The signature of a wallet request verifies for the address as written.
ValidlySigned(request) ==
  verify_wallet_signature(request.message, request.signature, request.written)

\* C17: at most one identity has a lowercased wallet address, also when
\* registrations of the address overlap; a validly signed registration of an
\* address whose lowercase form an identity has raises
\* WalletAlreadyExistsError (409) and stores and stages nothing.
C17_WalletAddressUnique ==
  /\ [](\A u \in users, w \in users :
          ( /\ u.wallet_address # None
            /\ lower(u.wallet_address) = lower(w.wallet_address) )
          => u = w)
  /\ [][ ( /\ last'.op = "wallet_register"
           /\ last'.result # "pending"
           /\ sess' = sess
           /\ ValidlySigned(last'.request)
           /\ \E u \in users :
                u.wallet_address = lower(last'.request.written) )
         => /\ last'.result = "WalletAlreadyExistsError"
            /\ last'.status = 409
            /\ users' = users ]_vars

C17_Witness ==
  /\ last.op = "wallet_register"
  /\ last.result = "IntegrityError"
  /\ last.request.written \in Accounts
  /\ Cardinality({u \in users :
                    u.wallet_address = lower(last.request.written)}) = 1

\* C18: a wallet registration whose signature does not verify for the address
\* raises WalletAuthError (401) whether or not the address is registered, and
\* WalletAlreadyExistsError (409) is answered only to a valid signature for a
\* registered address.
C18_SignatureBeforeUniqueness ==
  last.op = "wallet_register" =>
    /\ ~ValidlySigned(last.request)
       => /\ last.result = "WalletAuthError"
          /\ last.status = 401
    /\ (last.result = "WalletAlreadyExistsError" \/ last.status = 409)
       => /\ ValidlySigned(last.request)
          /\ last.registered
          /\ last.result = "WalletAlreadyExistsError"
          /\ last.status = 409

C18_Witness ==
  /\ last.op = "wallet_register"
  /\ last.result = "WalletAuthError"
  /\ last.registered
  /\ last.request.signature # Malformed

\* C19: authenticate_wallet_user returns the identity that has the lowercased
\* address, and only for a signature over the message that recovers to the
\* address; it raises WalletAuthError for an address no identity has and for
\* a signature that does not verify, and wallet_login answers both 401.
C19_WalletLoginNeedsAddressAndSignature ==
  /\ \A written \in WalletAddresses, signature \in Signatures,
        message \in Messages :
       LET out == authenticate_wallet_user(written, signature, message)
           recovered == recover_message(message, signature)
           registered == \E u \in users : u.wallet_address = lower(written)
       IN /\ out.raised = "no"
             => /\ out.value \in users
                /\ out.value.wallet_address = lower(written)
                /\ recovered.raised = "no"
                /\ lower(recovered.address) = lower(written)
          /\ ~registered => out.raised = "WalletAuthError"
          /\ ( recovered.raised # "no"
               \/ lower(recovered.address) # lower(written) )
             => out.raised = "WalletAuthError"
  /\ (last.op = "wallet_login" /\ last.result = "WalletAuthError")
     => last.status = 401
  /\ (last.op = "wallet_login" /\ last.result = "no")
     => /\ ValidlySigned(last.request)
        /\ \E u \in users : /\ u.id = last.user_id
                              /\ u.wallet_address
                                   = lower(last.request.written)

C19_Witness ==
  /\ last.op = "wallet_login"
  /\ last.result = "no"
  /\ last.request.written \in Accounts
  /\ Cardinality(users) = 2

\* C20: after a successful wallet registration or wallet login the identity's
\* message_version is the request's message_version.
C20_MessageVersionLastSigned ==
  ( /\ last.op \in {"wallet_register", "wallet_login"}
    /\ last.result = "no" )
  => \E u \in users :
       /\ u.id = last.user_id
       /\ u.message_version = <<last.request.message_version>>

\* The lifetime the issuer was asked for: the configured one when none given.
AskedLifetime(held) ==
  IF held.expires_delta = <<>> THEN ACCESS_TOKEN_EXPIRE_MINUTES
  ELSE held.expires_delta[1]

\* C21: a token issued with lifetime T verifies with its subject at every time
\* up to issue time + T and verify_token returns None at every later time,
\* for every T >= 0.
C21_TokenVerifiesUntilExpiry ==
  (last.op = "verify_token" /\ last.presented = last.held.token)
  => IF last.at <= last.held.issued_at + AskedLifetime(last.held)
     THEN last.payload.sub = ToString(last.held.sub)
     ELSE last.payload.sub = None

\* The token verify_token was given is signed with the server's key and has
\* not expired at the time of the call.
WellFormed(token, at) ==
  /\ token # Unparsable
  /\ token.key = SECRET_KEY
  /\ token.exp >= at

\* C22: verify_token never raises, and for a string that does not parse, a
\* token signed with another key and a token whose expiry is past it returns
\* None, never a payload.
C22_NoPartialTrust ==
  last.op = "verify_token"
  => /\ last.payload.raised = "no"
     /\ ~WellFormed(last.presented, last.at) => last.payload.sub = None
     /\ WellFormed(last.presented, last.at)
        => last.payload.sub = last.presented.sub

C22_Witness ==
  /\ last.op = "verify_token"
  /\ last.presented = forged(last.held.token)
  /\ last.held.token.exp >= last.at
  /\ last.payload.sub = None
  /\ last.payload.raised = "no"

\* C23: a bearer endpoint answers 401 when the token is missing, does not
\* parse, is expired or is signed with another key, and the operation is not
\* executed.
C23_BearerFailuresAre401 ==
  [][ ( /\ last'.op = "delete_vault"
        /\ last' # last
        /\ \/ last'.authorization = <<>>
           \/ ~WellFormed(last'.authorization[1], now) )
      => /\ last'.status = 401
         /\ vaults' = vaults ]_vars

\* C24: a user id is never reused: the identity a registration creates after
\* an account was deleted does not receive the id of the deleted identity.
C24_UserIdsNeverReused ==
  [][ ( /\ last.op = "delete_account"
        /\ last.result = "no"
        /\ last'.op = "register"
        /\ last'.result = "no" )
      => last'.user_id # last.caller ]_vars

\* The typed errors of the services.
DomainErrors ==
  { "VaultNotFoundError", "VaultAccessDeniedError", "UserNotFoundError",
    "AuthenticationError", "WalletAuthError", "WalletAlreadyExistsError" }

\* C25: a service operation that fails fails with one of the typed domain
\* errors, never with ValueError or an error of the storage library.
C25_FailuresAreTyped ==
  last.result \in {"no", "pending", "flushing"} \cup DomainErrors

\* C26: get_vault_by_user never raises: for every identity it returns no
\* vault or the one vault the identity owns.
C26_GetVaultByUserTotal ==
  \A user \in users :
    LET out == get_vault_by_user(user)
    IN /\ out.raised = "no"
       /\ IF OwnedBy(user.id) = {} THEN out.value = None
          ELSE out.value \in {v.vault_id : v \in OwnedBy(user.id)}

\* C27: of the create_vault requests that overlap and passed the existence
\* check for one vault_id at most one stores a record; the commit of another
\* fails with the storage's constraint violation, which is answered as a
\* generic failure (500) and not as the ValueError of the check (400), and
\* leaves the stored vault as it is.
C27_ConcurrentCreateOneWinner ==
  /\ [](\A vault_id \in VaultIds : Cardinality(VaultsWithId(vault_id)) <= 1)
  /\ []( last.op = "create_vault"
         => /\ last.result \in {"no", "pending", "ValueError", "IntegrityError"}
            /\ last.result = "IntegrityError" => last.status = 500
            /\ last.result = "ValueError" => last.status = 400 )
  /\ [][ \A r \in Slots :
           (sess[r].op = "create_vault" /\ sess'[r] = Idle)
           => IF VaultsWithId(sess[r].vault_id) # {}
              THEN /\ last'.result = "IntegrityError"
                   /\ vaults' = vaults
              ELSE /\ last'.result = "no"
                   /\ vaults' = vaults \cup {sess[r].vault} ]_vars

C27_Witness ==
  /\ last.op = "create_vault"
  /\ last.result = "IntegrityError"
  /\ \E v \in VaultsWithId(last.vault_id) :
       /\ v.user_id # last.caller
       /\ v.ciphertext # last.request.ciphertext

\* C28: in every state the user_id of every stored vault is the id of a stored
\* identity, also when an account deletion and a vault creation overlap.
C28_NoVaultOutlivesOwner ==
  \A v \in vaults : \E u \in users : u.id = v.user_id

\* C29: a password change commits only if its old auth string verifies
\* against the credential stored when it commits, so of two changes of one
\* identity that present the same old auth string at most one succeeds.
C29_OldAuthVerifiedAtCommit ==
  [][ \A r \in Slots :
        ( /\ sess[r].op = "change_password"
          /\ sess'[r] = Idle
          /\ last'.result = "no" )
        => \E u \in users :
             /\ u.id = sess[r].caller
             /\ sess[r].request.old_auth_hash \in Accepted(u) ]_vars

\* C30: after a password change that succeeded with a new auth string other
\* than the old one, authenticate_user with the identity's username and the
\* old auth string does not return the identity, and with the new auth
\* string it succeeds and reports the new salt.
C30_OldPasswordStopsNewWorks ==
  ( /\ last.op = "change_password"
    /\ last.result = "no"
    /\ last.request.new_auth_hash # last.request.old_auth_hash )
  => \A u \in users :
       u.id = last.caller
       => LET old == authenticate_user(u.username, last.request.old_auth_hash)
              new == authenticate_user(u.username, last.request.new_auth_hash)
          IN /\ old.raised = "no" => old.value.id # u.id
             /\ new.raised = "no"
             /\ new.value.salt = last.request.new_salt

\* A step is a call of rate_limit for `key`.
IsRateLimit(key) ==
  /\ last'.op = "rate_limit"
  /\ last'.key = key
  /\ clock' = clock
  /\ <<last, requests>>' # <<last, requests>>

\* The admitted requests of `key` that are newer than clock - window.
InWindow(key) ==
  {i \in DOMAIN requests[key] :
     requests[key][i] > clock - WindowSeconds * TicksPerSecond}

\* C35: for every key no MaxRequests + 1 admitted requests lie within a span
\* shorter than the window; a request is admitted exactly when fewer than
\* MaxRequests admitted requests of its key are newer than now - window; and
\* remaining is MaxRequests minus the admitted requests in the window, the
\* current one included.
C35_NeverMoreThanLimit ==
  /\ [](\A key \in Keys :
          LET times == last.history.admitted[key]
          IN Len(times) = MaxRequests + 1
             => times[Len(times)] - times[1]
                  >= WindowSeconds * TicksPerSecond)
  /\ [][ \A key \in Keys :
           IsRateLimit(key)
           => /\ last'.allowed <=> Cardinality(InWindow(key)) < MaxRequests
              /\ last'.remaining
                   = MaxRequests - Cardinality(InWindow(key))
                       - (IF last'.allowed THEN 1 ELSE 0)
              /\ \A other \in Keys \ {key} :
                   requests'[other] = requests[other] ]_vars

C35_Witness ==
  /\ last.op = "rate_limit"
  /\ last.allowed
  /\ last.remaining = 0
  /\ Len(last.history.admitted[last.key]) = MaxRequests + 1
  /\ \E other \in Keys \ {last.key} : Len(requests[other]) = MaxRequests

\* C36: a rejected request is not recorded, and a key that is being rejected
\* is admitted at the first request made once its oldest admitted request is
\* at least the window old, however many requests were rejected before.
C36_RejectionsDoNotPostpone ==
  [][ \A key \in Keys :
        IsRateLimit(key)
        => /\ ~last'.allowed
              => /\ requests'[key] = kept_requests(key, WindowSeconds)
                 /\ Len(requests'[key]) <= MaxRequests
           /\ ( /\ last.history.rejections[key] > 0
                /\ requests[key] # <<>>
                /\ min(requests[key])
                     <= clock - WindowSeconds * TicksPerSecond )
              => last'.allowed ]_vars

C36_Witness ==
  /\ last.op = "rate_limit"
  /\ last.allowed
  /\ last.rejected_before = MaxRejections
  /\ Len(last.history.admitted[last.key]) = MaxRequests + 1
  /\ last.at = last.history.admitted[last.key][1]
                 + WindowSeconds * TicksPerSecond

\* C37: a request made retry_after seconds after a rejection of its key, with
\* no request of that key admitted in between, is admitted.
C37_RetryAfterSuffices ==
  [][ \A key \in Keys :
        ( /\ IsRateLimit(key)
          /\ last.op = "rate_limit"
          /\ last.key = key
          /\ ~last.allowed
          /\ clock = last.at + last.retry_after * TicksPerSecond )
        => last'.allowed ]_vars

\* C32: create_access_token uses expires_delta whenever one is passed, a zero
\* duration included, and the configured lifetime only when none is passed:
\* exp is the issue time plus the chosen duration.
C32_SuppliedDeltaIsUsed ==
  last.op = "create_access_token"
  => /\ last.held.token.sub = ToString(last.held.sub)
     /\ last.held.token.exp
          = last.held.issued_at
            + (IF last.held.expires_delta = <<>>
               THEN ACCESS_TOKEN_EXPIRE_MINUTES
               ELSE last.held.expires_delta[1])

\* The row update_vault leaves for vault v and the request's fields.
Updated(v, request) ==
  [v EXCEPT !.ciphertext = request.ciphertext,
            !.iv = request.iv,
            !.version = request.version,
            !.salt = IF request.salt # None THEN request.salt ELSE @]

\* C33: an update_vault that succeeds changes the ciphertext, the iv and the
\* version of the one vault, and its salt only when the request carries one;
\* one that fails changes nothing; and no step of any operation changes the
\* vault_id or the user_id of a stored vault.
C33_UpdateFrame ==
  [][ /\ \A v \in vaults : \A w \in vaults' :
           w.vault_id = v.vault_id => w.user_id = v.user_id
      /\ last'.op = "update_vault"
         => IF last'.result = "no"
            THEN \E v \in vaults :
                   /\ v.vault_id = last'.vault_id
                   /\ v.user_id = last'.caller
                   /\ vaults' = (vaults \ {v})
                                  \cup {Updated(v, last'.request)}
            ELSE vaults' = vaults ]_vars

C33_Witness ==
  /\ last.op = "update_vault"
  /\ last.result = "no"
  /\ last.request.salt = None
  /\ \E v \in vaults :
       /\ v.vault_id = last.vault_id
       /\ v.ciphertext = "c2"
       /\ v.salt = "s2"
  /\ Cardinality(vaults) = 2

\* vault_id is the id of no stored vault.
Absent(vault_id) == VaultsWithId(vault_id) = {}

\* C34: once delete_vault succeeded, and as long as no vault of that id is
\* stored, get_vault_by_id, update_vault and delete_vault on the id raise
\* VaultNotFoundError for every caller and the endpoints answer 404, not 403.
C34_DeletedVaultIsNotFound ==
  /\ (last.op = "delete_vault" /\ last.result = "no")
     => Absent(last.vault_id)
  /\ \A vault_id \in VaultIds : \A user \in users :
       Absent(vault_id)
       => /\ get_vault_by_id(vault_id, user).raised = "VaultNotFoundError"
          /\ \A blob \in Blobs, salt \in Salts \cup {None} :
               update_vault(vault_id, user,
                            [ ciphertext |-> blob.ciphertext, iv |-> blob.iv,
                              version |-> blob.version, salt |-> salt ]).raised
                 = "VaultNotFoundError"
          /\ delete_vault(vault_id, user).raised = "VaultNotFoundError"
  /\ ( /\ last.op \in {"get_vault", "update_vault", "delete_vault"}
       /\ last.result = "VaultNotFoundError" )
     => last.status = 404
  /\ ( /\ last.op \in {"get_vault", "update_vault"}
       /\ Absent(last.vault_id) )
     => last.result = "VaultNotFoundError"

C34_Witness ==
  /\ last.op = "delete_vault"
  /\ last.result = "no"
  /\ Absent(last.vault_id)
  /\ \E v \in vaults : v.user_id # last.caller
  /\ \A user \in users :
       get_vault_by_id(last.vault_id, user).raised = "VaultNotFoundError"

\* The token register and login issue for identity `id` at time t.
TokenIssuedAt(id, t) ==
  [ sub |-> ToString(id), exp |-> t + ACCESS_TOKEN_EXPIRE_MINUTES,
    key |-> SECRET_KEY ]

\* C31: tokens are not revoked: whatever password changes and account
\* deletions were committed, a token issued to an identity at any earlier
\* time verifies with its subject up to its expiry.
C31_TokensNotRevoked ==
  \A id \in 1..MaxUsers : \A t \in 0..now :
    LET token == TokenIssuedAt(id, t)
    IN verify_token(token).sub
         = IF now <= token.exp THEN ToString(id) ELSE None

C31_Witness ==
  /\ last.op = "delete_account"
  /\ last.result = "no"
  /\ last.caller \notin UserIds
  /\ \E u \in users : u \notin Registered
  /\ now = ACCESS_TOKEN_EXPIRE_MINUTES
  /\ verify_token(TokenIssuedAt(last.caller, 0)).sub = ToString(last.caller)

\* C38: authenticate_user never returns a wallet identity,
\* authenticate_wallet_user never returns a password identity, and a password
\* change or an account deletion called by a wallet identity raises
\* AuthenticationError and changes nothing.
C38_SchemesNeverCross ==
  /\ [](\A username \in Usernames, auth_hash \in AuthStrings :
          LET out == authenticate_user(username, auth_hash)
          IN out.raised = "no" => PasswordVariant(out.value))
  /\ [](\A wallet_address \in WalletAddresses, signature \in Signatures,
           message \in Messages :
          LET out == authenticate_wallet_user(wallet_address, signature,
                                              message)
          IN out.raised = "no" => WalletVariant(out.value))
  /\ [](\A user \in users :
          WalletVariant(user)
          => /\ \A old_auth_hash \in AuthStrings, new_auth_hash \in AuthStrings,
                   new_salt \in Salts, blob \in Blobs :
                  change_user_password_with_vault(
                    user, old_auth_hash, new_auth_hash, new_salt,
                    blob.ciphertext, blob.iv, blob.version, "n1").raised
                    = "AuthenticationError"
             /\ \A password_auth_hash \in AuthStrings :
                  delete_user(user, password_auth_hash).raised
                    = "AuthenticationError")
  /\ [][ ( /\ last'.op \in {"change_password", "delete_account"}
           /\ \E user \in users :
                user.id = last'.caller /\ WalletVariant(user) )
         => /\ last'.result = "AuthenticationError"
            /\ last'.status = 401
            /\ users' = users
            /\ vaults' = vaults
            /\ sess' = sess ]_vars

C38_Witness ==
  /\ last.op = "delete_account"
  /\ last.result = "AuthenticationError"
  /\ \E user \in users :
       /\ user.id = last.caller
       /\ WalletVariant(user)
       /\ OwnedBy(user.id) # {}
  /\ \E user \in users : PasswordVariant(user)

\* C39: Settings with environment "production" and the secret key left at, or
\* set to, the default fails with an error; with another environment it is
\* constructed with a warning.
C39_DefaultKeyRefusedInProduction ==
  ( /\ last.op = "Settings"
    /\ FieldValue(last.environ, "secret_key") = SECRET_KEY )
  => IF FieldValue(last.environ, "environment") = "production"
     THEN last.result = "ValidationError"
     ELSE /\ last.result = "no"
          /\ last.warned = "default secret key"

====
